---- MODULE Spec2Model ----
(***************************************************************************)
(* A model of knittingpattern.convert.InstructionToSVG: the registry of    *)
(* SVG templates, its population, the rendering dispatch, the default      *)
(* rendering path and the recolouring of the colour layer.                 *)
(*                                                                         *)
(* Text.  A Python str is a sequence of symbols.  A symbol is a chunk of   *)
(* characters ("fill", ":", ";", "#", "000000"); the literals the code     *)
(* searches for ("fill:", ";", "{instruction.type}", "@", "#", "/", ".")   *)
(* are sequences of whole symbols, and no symbol contains a character of   *)
(* a literal without being that literal's symbol, so that str.split,       *)
(* str.startswith, str.replace and str.join act on symbols exactly as they *)
(* act on characters.                                                      *)
(*                                                                         *)
(* Template text.  The text of a file is given by the XML document it      *)
(* spells: whether it is well formed, and the element tree with the raw    *)
(* (still escaped) attribute values and character data.                    *)
(*                                                                         *)
(* Python values.  None, str, dict (an ordered sequence of key/value       *)
(* pairs) and list are records tagged by k.                                *)
(***************************************************************************)
EXTENDS Integers, Sequences, FiniteSets, TLC

VARIABLES registry, written, op, arg, ret, taken

vars == <<registry, written, op, arg, ret, taken>>

(***************************************************************************)
(* Python values                                                           *)
(***************************************************************************)
PyNone == [k |-> "none", s |-> <<>>, items |-> <<>>]

PyStr(s) == [k |-> "str", s |-> s, items |-> <<>>]

PyDict(items) == [k |-> "dict", s |-> <<>>, items |-> items]

PyList(elems) == [k |-> "list", s |-> <<>>, items |-> elems]

PyBool(b) == [k |-> IF b THEN "True" ELSE "False", s |-> <<>>, items |-> <<>>]

Item(key, val) == [key |-> key, val |-> val]

\* key in d
HasKey(d, key) == \E i \in 1..Len(d.items) : d.items[i].key = key

\* d[key], for a key of d
GetItem(d, key) == d.items[CHOOSE i \in 1..Len(d.items) : d.items[i].key = key].val

\* d.get(key, None)
DictGet(d, key) == IF HasKey(d, key) THEN GetItem(d, key) ELSE PyNone

\* d[key] = val: an existing key keeps its position, a new key is appended.
SetItem(d, key, val) ==
    IF HasKey(d, key)
    THEN PyDict([i \in 1..Len(d.items) |->
                    IF d.items[i].key = key THEN Item(key, val) ELSE d.items[i]])
    ELSE PyDict(Append(d.items, Item(key, val)))

\* The result of a call: a returned value or a raised exception.
Returned(value) == [status |-> "ok", value |-> value, exc |-> "none"]

Raised(exc) == [status |-> "error", value |-> PyNone, exc |-> exc]

NoResult == [status |-> "none", value |-> PyNone, exc |-> "none"]

(***************************************************************************)
(* str operations                                                          *)
(***************************************************************************)
StartsWith(s, prefix) ==
    /\ Len(s) >= Len(prefix)
    /\ SubSeq(s, 1, Len(prefix)) = prefix

\* whether old occurs in s as a contiguous run
Contains(s, old) ==
    \E i \in 1..(Len(s) - Len(old) + 1) : SubSeq(s, i, i + Len(old) - 1) = old

\* s.split(sep) for a one-symbol separator: every separator cuts, so empty
\* pieces (leading, trailing, between two separators) are kept.
RECURSIVE SplitFrom(_, _, _)
SplitFrom(s, sep, piece) ==
    IF s = <<>> THEN <<piece>>
    ELSE IF Head(s) = sep THEN <<piece>> \o SplitFrom(Tail(s), sep, <<>>)
    ELSE SplitFrom(Tail(s), sep, Append(piece, Head(s)))

Split(s, sep) == SplitFrom(s, sep, <<>>)

\* sep.join(parts)
RECURSIVE Join(_, _)
Join(parts, sep) ==
    IF parts = <<>> THEN <<>>
    ELSE IF Len(parts) = 1 THEN parts[1]
    ELSE parts[1] \o <<sep>> \o Join(Tail(parts), sep)

\* s.replace(old, new) for a non-empty old: one scan from the left over
\* non-overlapping occurrences; the inserted text is not scanned again.
RECURSIVE StrReplace(_, _, _)
StrReplace(s, old, new) ==
    IF Len(s) < Len(old) THEN s
    ELSE IF StartsWith(s, old)
         THEN new \o StrReplace(SubSeq(s, Len(old) + 1, Len(s)), old, new)
         ELSE <<Head(s)>> \o StrReplace(Tail(s), old, new)

(***************************************************************************)
(* Template text and xmltodict.parse                                       *)
(***************************************************************************)
Attr(name, value) == [name |-> name, value |-> value]

Element(name, attrs, children, text) ==
    [name |-> name, attrs |-> attrs, children |-> children, text |-> text]

\* The text of a file: well formed or not, and the document it spells.
Document(root) == [wf |-> TRUE, root |-> root]

Malformed(root) == [wf |-> FALSE, root |-> root]

\* The parser resolves a character reference in an attribute value or in
\* character data: "&#123;" is "{".
Unescape(s) == [i \in 1..Len(s) |-> IF s[i] = "&#123;" THEN "{" ELSE s[i]]

\* xmltodict's push_data: the first value under a key is stored as it is, a
\* second one turns the entry into a list, later ones are appended.
push_data(item, key, data) ==
    IF ~HasKey(item, key) THEN PyDict(Append(item.items, Item(key, data)))
    ELSE LET old == GetItem(item, key)
         IN  SetItem(item, key,
                     IF old.k = "list" THEN PyList(Append(old.items, data))
                     ELSE PyList(<<old, data>>))

\* The value xmltodict builds for an element: None or a str for an element
\* with neither attributes nor children, else a dict of the attributes
\* ("@" + name), the children by name, and the character data ("#text").
RECURSIVE ElementValue(_)
RECURSIVE PushChildren(_, _)
PushChildren(item, children) ==
    IF children = <<>> THEN item
    ELSE PushChildren(push_data(item, Head(children).name,
                                ElementValue(Head(children))),
                      Tail(children))

ElementValue(e) ==
    IF e.attrs = <<>> /\ e.children = <<>>
    THEN IF e.text = <<>> THEN PyNone ELSE PyStr(Unescape(e.text))
    ELSE LET attrs == PyDict([i \in 1..Len(e.attrs) |->
                         Item(<<"@">> \o e.attrs[i].name,
                              PyStr(Unescape(e.attrs[i].value)))])
             body == PushChildren(attrs, e.children)
         IN  IF e.text = <<>> THEN body
             ELSE push_data(body, <<"#", "text">>, PyStr(Unescape(e.text)))

\* xmltodict.parse(svg_string) of a well-formed text
xmltodict_parse(svg_string) ==
    PyDict(<<Item(svg_string.root.name, ElementValue(svg_string.root))>>)

\* svg_string.replace(old, new) on the text of a file: the raw attribute
\* values and the character data are where the modelled templates hold
\* replaceable text.
RECURSIVE ReplaceInElement(_, _, _)
ReplaceInElement(e, old, new) ==
    Element(e.name,
            [i \in 1..Len(e.attrs) |->
                Attr(e.attrs[i].name, StrReplace(e.attrs[i].value, old, new))],
            [i \in 1..Len(e.children) |->
                ReplaceInElement(e.children[i], old, new)],
            StrReplace(e.text, old, new))

TextReplace(svg_string, old, new) ==
    [svg_string EXCEPT !.root = ReplaceInElement(svg_string.root, old, new)]

(***************************************************************************)
(* InstructionToSVG._set_fills_in_color_layer                              *)
(***************************************************************************)
FillPrefix == <<"fill", ":">>

LabelKey == <<"@", "inkscape:label">>

GroupmodeKey == <<"@", "inkscape:groupmode">>

StyleKey == <<"@", "style">>

\* if not isinstance(x, list): x = [x]
AsList(x) == IF x.k = "list" THEN x.items ELSE <<x>>

\* A faulty variant of ProcessStyle that drops the empty declarations.
ProcessStyleDroppingEmpty(style, color) ==
    LET parts == SelectSeq(Split(style, ";"), LAMBDA e : e # <<>>)
    IN  Join([i \in 1..Len(parts) |->
                 IF StartsWith(parts[i], FillPrefix) THEN FillPrefix \o color
                 ELSE parts[i]], ";")

\* The style with every declaration that starts with "fill:" rewritten.
ProcessStyle(style, color) ==
    LET parts == Split(style, ";")
    IN  Join([i \in 1..Len(parts) |->
                 IF StartsWith(parts[i], FillPrefix) THEN FillPrefix \o color
                 ELSE parts[i]], ";")

\* The body of the loop over the elements, for an element that is a dict.
RecolorElement(element, color) ==
    LET style == DictGet(element, StyleKey)
    IN  IF style.k = "str" /\ style.s # <<>>
        THEN SetItem(element, StyleKey, PyStr(ProcessStyle(style.s, color)))
        ELSE element

\* A faulty variant of IsColorLayer that looks at the label alone.
IsColorLayerByLabelOnly(layer) ==
    /\ layer.k = "dict"
    /\ DictGet(layer, LabelKey) = PyStr(<<"color">>)

\* The layers the loop enters: a dict with both markers.
IsColorLayer(layer) ==
    /\ layer.k = "dict"
    /\ DictGet(layer, LabelKey) = PyStr(<<"color">>)
    /\ DictGet(layer, GroupmodeKey) = PyStr(<<"layer">>)

\* The keys of a layer whose values the loop visits.
IsChildKey(key) == ~StartsWith(key, <<"@">>) /\ ~StartsWith(key, <<"#">>)

\* element.get raises AttributeError on an element that is None or a str.
LayerRaises(layer) ==
    \E i \in 1..Len(layer.items) :
        /\ IsChildKey(layer.items[i].key)
        /\ \E j \in 1..Len(AsList(layer.items[i].val)) :
               AsList(layer.items[i].val)[j].k # "dict"

\* A colour layer after the loop over its items.
RecolorLayer(layer, color) ==
    PyDict([i \in 1..Len(layer.items) |->
        LET key == layer.items[i].key
            elements == layer.items[i].val
        IN  IF ~IsChildKey(key) THEN layer.items[i]
            ELSE IF elements.k = "list"
            THEN Item(key, PyList([j \in 1..Len(elements.items) |->
                                      RecolorElement(elements.items[j], color)]))
            ELSE Item(key, RecolorElement(elements, color))])

_set_fills_in_color_layer(svg_string, color) ==
    IF ~svg_string.wf THEN Raised("ExpatError")
    ELSE
    LET structure == xmltodict_parse(svg_string)
    IN  IF color = PyNone THEN Returned(structure)
        ELSE IF ~HasKey(structure, <<"svg">>) THEN Raised("KeyError")
        ELSE
        LET svg == GetItem(structure, <<"svg">>)
        IN  IF svg.k # "dict" THEN Raised("TypeError")
            ELSE IF ~HasKey(svg, <<"g">>) THEN Raised("KeyError")
            ELSE
            LET g == GetItem(svg, <<"g">>)
                layers == AsList(g)
                done == [i \in 1..Len(layers) |->
                            IF IsColorLayer(layers[i])
                            THEN RecolorLayer(layers[i], color.s)
                            ELSE layers[i]]
            IN  IF \E i \in 1..Len(layers) :
                       IsColorLayer(layers[i]) /\ LayerRaises(layers[i])
                THEN Raised("AttributeError")
                ELSE Returned(SetItem(structure, <<"svg">>,
                         SetItem(svg, <<"g">>,
                                 IF g.k = "list" THEN PyList(done)
                                 ELSE done[1])))

(***************************************************************************)
(* The registry and its population                                         *)
(***************************************************************************)
\* self._instruction_type_to_file_content = {}
EmptyRegistry == [name \in {} |-> Document(Element(<<>>, <<>>, <<>>, <<>>))]

\* The last index of symbol c in s, 0 when it does not occur.
LastIndex(s, c) ==
    IF \E i \in 1..Len(s) : s[i] = c
    THEN CHOOSE i \in 1..Len(s) : s[i] = c /\ \A j \in (i + 1)..Len(s) : s[j] # c
    ELSE 0

\* os.path.basename(path)
basename(path) == SubSeq(path, LastIndex(path, "/") + 1, Len(path))

\* os.path.splitext(file_name)[0]: cut at the last dot, unless only dots
\* precede it.
splitext_root(file_name) ==
    LET dot == LastIndex(file_name, ".")
    IN  IF dot > 0 /\ \E i \in 1..(dot - 1) : file_name[i] # "."
        THEN SubSeq(file_name, 1, dot - 1)
        ELSE file_name

\* The registry key of a path.
KeyOfPath(path) == splitext_root(basename(path))

\* A faulty variant of _process_loaded_object that keeps the first content of a key.
_process_loaded_object_keeping_first(reg, path, string) ==
    LET name == KeyOfPath(path)
    IN  [n \in DOMAIN reg \cup {name} |->
            IF n \in DOMAIN reg THEN reg[n] ELSE string]

\* The registry after _process_loaded_object(path) has read string.
_process_loaded_object(reg, path, string) ==
    LET name == KeyOfPath(path)
    IN  [n \in DOMAIN reg \cup {name} |-> IF n = name THEN string ELSE reg[n]]

(***************************************************************************)
(* Rendering                                                               *)
(***************************************************************************)
\* rep_str: the text "{instruction.type}"
rep_str == <<"{", "instruction.type", "}">>

default_type == <<"default">>

\* What a call leaves behind: its result, the branch of the dispatch it
\* took, and the registry after it.
Call(result, path, reg) == [ret |-> result, taken |-> path, registry |-> reg]

EmptySvgDict == PyDict(<<Item(<<"svg">>, PyStr(<<>>))>>)

\* A faulty variant of has_svg_for_instruction that counts the default image.
has_svg_for_instruction_or_default(reg, instruction) ==
    instruction.type \in DOMAIN reg \/ default_type \in DOMAIN reg

has_svg_for_instruction(reg, instruction) == instruction.type \in DOMAIN reg

\* A faulty variant of default_instruction_to_svg_dict that reads the default
\* entry without looking whether it is there.
default_instruction_to_svg_dict_unguarded(reg, instruction) ==
    IF default_type \notin DOMAIN reg
    THEN Call(Raised("KeyError"), "default", reg)
    ELSE Call(_set_fills_in_color_layer(
                  TextReplace(reg[default_type], rep_str, instruction.type),
                  instruction.color),
              "default", reg)

\* A faulty variant of default_instruction_to_svg_dict that keeps the text it
\* substituted as the default entry.
default_instruction_to_svg_dict_storing(reg, instruction) ==
    IF default_type \notin DOMAIN reg
    THEN Call(Returned(EmptySvgDict), "default", reg)
    ELSE LET default_svg ==
                 TextReplace(reg[default_type], rep_str, instruction.type)
         IN  Call(_set_fills_in_color_layer(default_svg, instruction.color),
                  "default",
                  [reg EXCEPT ![default_type] = default_svg])

\* A faulty variant of default_instruction_to_svg_dict that substitutes nothing.
default_instruction_to_svg_dict_verbatim(reg, instruction) ==
    IF default_type \notin DOMAIN reg
    THEN Call(Returned(EmptySvgDict), "default", reg)
    ELSE Call(_set_fills_in_color_layer(reg[default_type], instruction.color),
              "default", reg)

default_instruction_to_svg_dict(reg, instruction) ==
    IF default_type \notin DOMAIN reg
    THEN Call(Returned(EmptySvgDict), "default", reg)
    ELSE LET default_svg ==
                 TextReplace(reg[default_type], rep_str, instruction.type)
         IN  Call(_set_fills_in_color_layer(default_svg, instruction.color),
                  "default", reg)

\* A faulty variant of instruction_to_svg_dict that renders the type "default"
\* like an unregistered type.
instruction_to_svg_dict_reserving_default(reg, instruction) ==
    IF instruction.type \in DOMAIN reg /\ instruction.type # default_type
    THEN Call(_set_fills_in_color_layer(reg[instruction.type],
                                        instruction.color),
              "specific", reg)
    ELSE default_instruction_to_svg_dict(reg, instruction)

instruction_to_svg_dict(reg, instruction) ==
    IF instruction.type \in DOMAIN reg
    THEN Call(_set_fills_in_color_layer(reg[instruction.type],
                                        instruction.color),
              "specific", reg)
    ELSE default_instruction_to_svg_dict(reg, instruction)

(***************************************************************************)
(* Inputs of the registry machine                                          *)
(***************************************************************************)
ColorLayerAttrs ==
    <<Attr(<<"inkscape:label">>, <<"color">>),
      Attr(<<"inkscape:groupmode">>, <<"layer">>)>>

Group(attrs, children) == Element(<<"g">>, attrs, children, <<>>)

Styled(name, style) == Element(name, <<Attr(<<"style">>, style)>>, <<>>, <<>>)

BlackFill == <<"fill", ":", "#", "000000", ";", "fill", "-opacity", ":", "1">>

\* knit.svg: a colour layer and an unlabelled group, each with a filled rect.
KnitSvg ==
    Document(Element(<<"svg">>, <<>>,
        <<Group(ColorLayerAttrs, <<Styled(<<"rect">>, BlackFill)>>),
          Group(<<>>, <<Styled(<<"rect">>, BlackFill)>>)>>,
        <<>>))

\* default.svg: the placeholder in an attribute value and in a text.
DefaultSvg ==
    Document(Element(<<"svg">>, <<>>,
        <<Group(ColorLayerAttrs \o <<Attr(<<"id">>, <<"layer-">> \o rep_str)>>,
                <<Styled(<<"rect">>, BlackFill)>>),
          Element(<<"text">>, <<>>, <<>>, rep_str)>>,
        <<>>))

\* A default.svg whose text around the placeholder spells its braces, and
\* which writes an open brace as a character reference.
BracedSvg ==
    Document(Element(<<"svg">>, <<>>,
        <<Group(ColorLayerAttrs, <<Styled(<<"rect">>, BlackFill)>>),
          Element(<<"text">>, <<>>, <<>>, <<"{">> \o rep_str \o <<"}">>),
          Element(<<"desc">>, <<>>, <<>>,
                  <<"&#123;", "instruction.type", "}">>)>>,
        <<>>))

\* A default.svg whose only placeholder is the fill of the colour layer.
PlaceholderFillSvg ==
    Document(Element(<<"svg">>, <<>>,
        <<Group(ColorLayerAttrs,
                <<Styled(<<"rect">>, <<"fill", ":">> \o rep_str)>>)>>,
        <<>>))

\* An image without any group.
NoGroupSvg ==
    Document(Element(<<"svg">>, <<>>, <<Styled(<<"rect">>, BlackFill)>>, <<>>))

\* A file that is not well-formed XML.
BrokenSvg ==
    Malformed(Element(<<"svg">>, <<>>,
        <<Element(<<"text">>, <<>>, <<>>, rep_str)>>, <<>>))

Templates ==
    {KnitSvg, DefaultSvg, BracedSvg, PlaceholderFillSvg, NoGroupSvg, BrokenSvg}

\* What open(path) finds: a readable file with its text, or none.
Files ==
    [readable : {TRUE}, string : Templates]
        \cup {[readable |-> FALSE, string |-> BrokenSvg]}

Paths ==
    { <<"knit", ".", "svg">>,
      <<"folder", ".", "d", "/", "knit">>,
      <<"folder", "/", "default", ".", "svg">> }

Types ==
    { <<"knit">>, <<"purl">>, default_type, rep_str, <<"instruction.type">> }

Colors == { PyNone, PyStr(<<"blue">>) }

Instructions == [type : Types, color : Colors]

(***************************************************************************)
(* The registry machine                                                    *)
(***************************************************************************)
Init ==
    /\ registry = EmptyRegistry
    /\ written = EmptyRegistry
    /\ op = "__init__"
    /\ arg = <<>>
    /\ ret = NoResult
    /\ taken = "none"

\* The loader's callback _process_loaded_object(path), once per resource.
\* open raises when the file cannot be read, and the registry is then left
\* as it was.  written keeps the content last populated per key; taken
\* records whether the assignment inserted a key, replaced its content by
\* another one, or wrote the same content again.
Populate(path, file) ==
    /\ op' = "_process_loaded_object"
    /\ arg' = path
    /\ IF file.readable
       THEN /\ taken' = IF KeyOfPath(path) \notin DOMAIN registry THEN "insert"
                        ELSE IF registry[KeyOfPath(path)] = file.string
                        THEN "rewrite" ELSE "overwrite"
            /\ registry' = _process_loaded_object(registry, path, file.string)
            /\ written' = [n \in DOMAIN written \cup {KeyOfPath(path)} |->
                              IF n = KeyOfPath(path) THEN file.string
                              ELSE written[n]]
            /\ ret' = Returned(PyNone)
       ELSE /\ taken' = "none"
            /\ ret' = Raised("IOError")
            /\ UNCHANGED <<registry, written>>

Render(instruction) ==
    LET call == instruction_to_svg_dict(registry, instruction)
    IN  /\ op' = "instruction_to_svg_dict"
        /\ arg' = instruction
        /\ ret' = call.ret
        /\ taken' = call.taken
        /\ registry' = call.registry
        /\ UNCHANGED written

RenderDefault(instruction) ==
    LET call == default_instruction_to_svg_dict(registry, instruction)
    IN  /\ op' = "default_instruction_to_svg_dict"
        /\ arg' = instruction
        /\ ret' = call.ret
        /\ taken' = call.taken
        /\ registry' = call.registry
        /\ UNCHANGED written

HasSvg(instruction) ==
    /\ op' = "has_svg_for_instruction"
    /\ arg' = instruction
    /\ ret' = Returned(PyBool(has_svg_for_instruction(registry, instruction)))
    /\ taken' = "none"
    /\ UNCHANGED <<registry, written>>

Next ==
    \/ \E path \in Paths, file \in Files : Populate(path, file)
    \/ \E instruction \in Instructions : Render(instruction)
    \/ \E instruction \in Instructions : RenderDefault(instruction)
    \/ \E instruction \in Instructions : HasSvg(instruction)

Spec == Init /\ [][Next]_vars

(***************************************************************************)
(* Properties of the registry machine                                      *)
(***************************************************************************)
RenderOps ==
    {"instruction_to_svg_dict", "default_instruction_to_svg_dict",
     "has_svg_for_instruction"}

\* whether a str of the value holds the pattern
RECURSIVE TreeContains(_, _)
TreeContains(value, pattern) ==
    IF value.k = "str" THEN Contains(value.s, pattern)
    ELSE IF value.k = "dict"
    THEN \E i \in 1..Len(value.items) :
             TreeContains(value.items[i].val, pattern)
    ELSE IF value.k = "list"
    THEN \E i \in 1..Len(value.items) : TreeContains(value.items[i], pattern)
    ELSE FALSE

\* the same, leaving out what is stored under the key
RECURSIVE TreeContainsOutside(_, _, _)
TreeContainsOutside(value, pattern, key) ==
    IF value.k = "str" THEN Contains(value.s, pattern)
    ELSE IF value.k = "dict"
    THEN \E i \in 1..Len(value.items) :
             /\ value.items[i].key # key
             /\ TreeContainsOutside(value.items[i].val, pattern, key)
    ELSE IF value.k = "list"
    THEN \E i \in 1..Len(value.items) :
             TreeContainsOutside(value.items[i], pattern, key)
    ELSE FALSE

\* whether an attribute value or the character data of the text holds it
RECURSIVE ElementContains(_, _)
ElementContains(e, pattern) ==
    \/ Contains(e.text, pattern)
    \/ \E i \in 1..Len(e.attrs) : Contains(e.attrs[i].value, pattern)
    \/ \E i \in 1..Len(e.children) : ElementContains(e.children[i], pattern)

TextContains(svg_string, pattern) == ElementContains(svg_string.root, pattern)

\* C1: after a render, has_svg_for_instruction of the rendered instruction
\* is true exactly when the render took the type-specific branch.
C1_PredicateConsistency ==
    op = "instruction_to_svg_dict" =>
        (has_svg_for_instruction(registry, arg) <=> taken = "specific")

\* C1: a render that fell back to a registered default image.
C1_Witness ==
    /\ op = "instruction_to_svg_dict"
    /\ taken = "default"
    /\ default_type \in DOMAIN registry
    /\ registry # [n \in DOMAIN registry |-> registry[default_type]]
    /\ ret.status = "ok"

\* C2: with no entry under the type and none under "default", render and
\* render_default return {"svg": ""} and do not raise.
C2_EmptyDocument ==
    ( /\ op \in {"instruction_to_svg_dict", "default_instruction_to_svg_dict"}
      /\ arg.type \notin DOMAIN registry
      /\ default_type \notin DOMAIN registry )
    => /\ ret.status = "ok"
       /\ ret.value = PyDict(<<Item(<<"svg">>, PyStr(<<>>))>>)

\* C2: a coloured instruction of an unknown type rendered from a registry
\* that holds another type and no default.
C2_Witness ==
    /\ op = "instruction_to_svg_dict"
    /\ DOMAIN registry = {<<"knit">>}
    /\ arg.type = <<"purl">>
    /\ arg.color # PyNone
    /\ ret.status = "ok"

\* Whether the type, inserted for the placeholder, can spell it again: it
\* holds a brace, or it is a part of the text between the braces.
CanSpellPlaceholder(type) ==
    \/ \E i \in 1..Len(type) : type[i] \in {"{", "}"}
    \/ Contains(<<"instruction.type">>, type)

\* What the default path parses for an instruction.
SubstitutedDefault(instruction) ==
    TextReplace(registry[default_type], rep_str, instruction.type)

\* C5 as stated: on the default path the result is the recoloured parse of
\* the substituted default text, the resulting tree holds no placeholder,
\* and the stored default text is the one last written.
C5_Original ==
    ( /\ op = "instruction_to_svg_dict"
      /\ default_type \in DOMAIN registry
      /\ arg.type \notin DOMAIN registry )
    => /\ ret = _set_fills_in_color_layer(SubstitutedDefault(arg), arg.color)
       /\ ret.status = "ok" => ~TreeContains(ret.value, rep_str)
       /\ registry[default_type] = written[default_type]

\* C5, amended: on the default path the result is the recoloured parse of
\* the substituted default text; the substituted text holds no placeholder
\* when the type cannot spell it again; the stored default text is the one
\* last written.
C5_DefaultPath ==
    ( /\ op = "instruction_to_svg_dict"
      /\ default_type \in DOMAIN registry
      /\ arg.type \notin DOMAIN registry )
    => /\ ret = _set_fills_in_color_layer(SubstitutedDefault(arg), arg.color)
       /\ ~CanSpellPlaceholder(arg.type)
              => ~TextContains(SubstitutedDefault(arg), rep_str)
       /\ registry[default_type] = written[default_type]

\* C5: a coloured "purl" rendered from the default image: the placeholder is
\* still in the stored text, the type is in the tree, the placeholder not.
C5_Witness ==
    /\ op = "instruction_to_svg_dict"
    /\ default_type \in DOMAIN registry
    /\ arg.type = <<"purl">>
    /\ arg.color # PyNone
    /\ TextContains(registry[default_type], rep_str)
    /\ ret.status = "ok"
    /\ TreeContains(ret.value, <<"layer-", "purl">>)
    /\ ~TreeContains(ret.value, rep_str)

\* C6: a step never removes a key; the registry holds, under every key, the
\* content of the last population of that key; a render of a registered
\* type is the recoloured parse of that content.
C6_LastWriteWins ==
    [][ /\ DOMAIN registry \subseteq DOMAIN registry'
        /\ registry' = written'
        /\ ( op' = "instruction_to_svg_dict" /\ arg'.type \in DOMAIN written' )
           => ret' = _set_fills_in_color_layer(written'[arg'.type], arg'.color)
      ]_vars

\* C6: a population that replaced the content of a key by another content,
\* with a second key registered.
C6_Witness ==
    /\ op = "_process_loaded_object"
    /\ taken = "overwrite"
    /\ Cardinality(DOMAIN registry) = 2
    /\ registry[KeyOfPath(arg)] = written[KeyOfPath(arg)]

\* C7: a step of render, render_default or has_svg_for_instruction leaves
\* the registry as it was, and the result it returned is the result the
\* same call returns when made again.
C7_RendersLeaveRegistry ==
    [][ op' \in RenderOps =>
        /\ registry' = registry
        /\ op' = "instruction_to_svg_dict"
               => instruction_to_svg_dict(registry', arg').ret = ret'
        /\ op' = "default_instruction_to_svg_dict"
               => default_instruction_to_svg_dict(registry', arg').ret = ret'
      ]_vars

\* C7: a coloured render on the default path that substituted the type and
\* rewrote a fill in the tree it parsed, with the placeholder still stored.
C7_Witness ==
    /\ op = "default_instruction_to_svg_dict"
    /\ default_type \in DOMAIN registry
    /\ arg.type = <<"purl">>
    /\ arg.color # PyNone
    /\ TextContains(registry[default_type], rep_str)
    /\ ret.status = "ok"
    /\ TreeContains(ret.value, FillPrefix \o arg.color.s)
    /\ TreeContains(ret.value, <<"layer-", "purl">>)

\* C10 as stated: the type "default" with a default entry renders on the
\* type-specific branch, without substitution, and a placeholder of the
\* stored text is still in the result.
C10_Original ==
    ( /\ op = "instruction_to_svg_dict"
      /\ arg.type = default_type
      /\ default_type \in DOMAIN registry )
    => /\ has_svg_for_instruction(registry, arg)
       /\ taken = "specific"
       /\ ret = _set_fills_in_color_layer(registry[default_type], arg.color)
       /\ ( ret.status = "ok" /\ TextContains(registry[default_type], rep_str) )
          => TreeContains(ret.value, rep_str)

\* C10, amended: every registered type, "default" included, renders on the
\* type-specific branch as the recoloured parse of its stored text, without
\* substitution; a placeholder of the parsed text that is not in a style
\* attribute is still in the result.
C10_DefaultAsType ==
    ( /\ op = "instruction_to_svg_dict"
      /\ arg.type \in DOMAIN registry )
    => /\ has_svg_for_instruction(registry, arg)
       /\ taken = "specific"
       /\ ret = _set_fills_in_color_layer(registry[arg.type], arg.color)
       /\ ( /\ ret.status = "ok"
            /\ TreeContainsOutside(xmltodict_parse(registry[arg.type]),
                                   rep_str, StyleKey) )
          => TreeContains(ret.value, rep_str)

\* C10: a coloured instruction of type "default" rendered from a default
\* image with a placeholder: the placeholder is in the result.
C10_Witness ==
    /\ op = "instruction_to_svg_dict"
    /\ arg.type = default_type
    /\ arg.color # PyNone
    /\ default_type \in DOMAIN registry
    /\ TextContains(registry[default_type], rep_str)
    /\ ret.status = "ok"
    /\ TreeContains(ret.value, <<"layer-">> \o rep_str)

(***************************************************************************)
(* _set_fills_in_color_layer as a function of its arguments                *)
(***************************************************************************)
MaxRootChildren == 2

MaxLayerChildren == 2

MaxStyleLen == 4

SeqsUpTo(S, n) == UNION {[1..m -> S] : m \in 0..n}

FilledRect == Styled(<<"rect">>, BlackFill)

\* What a root may hold: groups with both markers, one marker, another
\* label, no marker, an empty group, and an element that is no group.
RootChildKinds ==
    { Group(ColorLayerAttrs, <<FilledRect>>),
      Group(<<Attr(<<"inkscape:label">>, <<"color">>)>>, <<FilledRect>>),
      Group(<<Attr(<<"inkscape:groupmode">>, <<"layer">>)>>, <<FilledRect>>),
      Group(<<Attr(<<"inkscape:label">>, <<"outline">>),
              Attr(<<"inkscape:groupmode">>, <<"layer">>)>>, <<FilledRect>>),
      Group(<<>>, <<FilledRect>>),
      Group(<<>>, <<>>),
      FilledRect }

RootNames == { <<"svg">>, <<"html">> }

\* What a colour layer may hold: elements with a fill, with a style without
\* fill, with an empty style, without style, without anything, with text
\* only, and with a filled child of their own.
LayerChildKinds ==
    { FilledRect,
      Styled(<<"path">>, BlackFill),
      Styled(<<"rect">>, <<"stroke", ":", "red">>),
      Styled(<<"rect">>, <<>>),
      Element(<<"rect">>, <<Attr(<<"id">>, <<"r1">>)>>, <<>>, <<>>),
      Element(<<"rect">>, <<>>, <<>>, <<>>),
      Element(<<"text">>, <<>>, <<>>, <<"knit">>),
      Element(<<"a">>, <<>>, <<FilledRect>>, <<>>) }

StyleSymbols == { "fill", ":", ";", "-opacity", "red" }

ScopeTexts ==
    { Document(Element(name, <<>>, children, <<>>)) :
        name \in RootNames,
        children \in SeqsUpTo(RootChildKinds, MaxRootChildren) }
    \cup { Document(Element(<<"svg">>, <<>>, <<>>, <<"knit">>)) }

LayerTexts ==
    { Document(Element(<<"svg">>, <<>>,
          <<Element(<<"g">>, ColorLayerAttrs, children, <<"note">>),
            Group(<<>>, <<FilledRect>>)>>, <<>>)) :
        children \in SeqsUpTo(LayerChildKinds, MaxLayerChildren) }

StyleTexts ==
    { Document(Element(<<"svg">>, <<>>,
          <<Group(ColorLayerAttrs,
                  <<Styled(<<"rect">>, style), Styled(<<"path">>, BlackFill)>>)>>,
          <<>>)) :
        style \in SeqsUpTo(StyleSymbols, MaxStyleLen) }

RecolorColors ==
    { PyNone, PyStr(<<"blue">>), PyStr(<<>>), PyStr(<<"red", ";", "x">>) }

RecolorInputs ==
    [svg_string : ScopeTexts \cup LayerTexts \cup StyleTexts,
     color : RecolorColors]

InitRecolor ==
    /\ registry = EmptyRegistry
    /\ written = EmptyRegistry
    /\ op = "input"
    /\ arg \in RecolorInputs
    /\ ret = NoResult
    /\ taken = "none"

Recolor ==
    /\ op = "input"
    /\ op' = "_set_fills_in_color_layer"
    /\ ret' = _set_fills_in_color_layer(arg.svg_string, arg.color)
    /\ UNCHANGED <<registry, written, arg, taken>>

NextRecolor == Recolor

SpecRecolor == InitRecolor /\ [][NextRecolor]_vars

(***************************************************************************)
(* Properties of _set_fills_in_color_layer                                 *)
(***************************************************************************)
\* The call of a state that holds its result.
Recoloured == op = "_set_fills_in_color_layer"

\* The parse of the text the call was given.
Before == xmltodict_parse(arg.svg_string)

\* The direct child groups of the root of a tree with root svg.
GroupsOf(structure) == AsList(GetItem(GetItem(structure, <<"svg">>), <<"g">>))

\* A group that carries both markers of the colour layer.
Marked(layer) ==
    /\ layer.k = "dict"
    /\ \E i \in 1..Len(layer.items) :
           /\ layer.items[i].key = <<"@", "inkscape:label">>
           /\ layer.items[i].val.s = <<"color">>
    /\ \E i \in 1..Len(layer.items) :
           /\ layer.items[i].key = <<"@", "inkscape:groupmode">>
           /\ layer.items[i].val.s = <<"layer">>

\* A key of a dict that names child elements.
NamesChildren(key) == key[1] \notin {"@", "#"}

\* Whether the text has a root svg with a direct child group that is marked.
HasMarkedGroup(svg_string) ==
    /\ svg_string.root.name = <<"svg">>
    /\ \E i \in 1..Len(svg_string.root.children) :
           LET child == svg_string.root.children[i]
           IN  /\ child.name = <<"g">>
               /\ \E a \in 1..Len(child.attrs) :
                      child.attrs[a] = Attr(<<"inkscape:label">>, <<"color">>)
               /\ \E a \in 1..Len(child.attrs) :
                      child.attrs[a] = Attr(<<"inkscape:groupmode">>, <<"layer">>)

\* The places of the direct children of the marked groups: group, item of
\* the group, element under the item.
ChildSlots(structure) ==
    LET groups == GroupsOf(structure)
    IN  UNION { UNION { { <<l, i, j>> :
                          j \in 1..Len(AsList(groups[l].items[i].val)) } :
                        i \in { n \in 1..Len(groups[l].items) :
                                   NamesChildren(groups[l].items[n].key) } } :
                l \in { n \in 1..Len(groups) : Marked(groups[n]) } }

ChildAt(structure, slot) ==
    AsList(GroupsOf(structure)[slot[1]].items[slot[2]].val)[slot[3]]

\* The tree with the direct children of its marked groups blanked.
Blanked(structure) ==
    LET svg == GetItem(structure, <<"svg">>)
        g == GetItem(svg, <<"g">>)
        blank(layer) ==
            IF ~Marked(layer) THEN layer
            ELSE PyDict([i \in 1..Len(layer.items) |->
                     IF NamesChildren(layer.items[i].key)
                     THEN Item(layer.items[i].key, PyNone)
                     ELSE layer.items[i]])
    IN  SetItem(structure, <<"svg">>, SetItem(svg, <<"g">>,
            IF g.k = "list"
            THEN PyList([i \in 1..Len(g.items) |-> blank(g.items[i])])
            ELSE blank(g)))

\* The key of a declaration is what precedes its first colon.
KeyIsFill(declaration) ==
    \E i \in 1..Len(declaration) :
        /\ declaration[i] = ":"
        /\ \A j \in 1..(i - 1) : declaration[j] # ":"
        /\ SubSeq(declaration, 1, i - 1) = <<"fill">>

HasFill(style) ==
    \E i \in 1..Len(Split(style, ";")) : KeyIsFill(Split(style, ";")[i])

\* The declarations of new are those of old, with "fill:" + color in the
\* place of every declaration whose key is fill.
Refilled(old, new, color) ==
    Split(new, ";") =
        [i \in 1..Len(Split(old, ";")) |->
            IF KeyIsFill(Split(old, ";")[i]) THEN <<"fill", ":">> \o color
            ELSE Split(old, ";")[i]]

\* The element but for its style.
Unstyled(element) ==
    SelectSeq(element.items, LAMBDA item : item.key # <<"@", "style">>)

\* C3: when the recolouring of a non-null colour returns, the tree it
\* returns is the parsed tree everywhere but in the direct children of the
\* groups with both markers.
C3_RecolorScoped ==
    ( Recoloured /\ arg.color # PyNone /\ ret.status = "ok" )
    => Blanked(ret.value) = Blanked(Before)

\* C3: a recolouring that changed the colour layer beside a group that has
\* the label alone.
C3_Witness ==
    /\ Recoloured
    /\ arg.color = PyStr(<<"blue">>)
    /\ ret.status = "ok"
    /\ ret.value # Before
    /\ arg.svg_string.root.children =
           <<Group(ColorLayerAttrs, <<FilledRect>>),
             Group(<<Attr(<<"inkscape:label">>, <<"color">>)>>, <<FilledRect>>)>>

\* The styles of the direct children of the marked groups are refilled,
\* and nothing else of a child with a style changes.
StylesRefilled ==
    \A slot \in ChildSlots(Before) :
        LET old == ChildAt(Before, slot)
            new == ChildAt(ret.value, slot)
        IN  ( old.k = "dict" /\ HasKey(old, <<"@", "style">>) )
            => /\ new.k = "dict"
               /\ HasKey(new, <<"@", "style">>)
               /\ Unstyled(new) = Unstyled(old)
               /\ Refilled(GetItem(old, <<"@", "style">>).s,
                           GetItem(new, <<"@", "style">>).s, arg.color.s)

\* C4 as stated: for every non-null colour the declarations of the new
\* style are those of the old one, in number and order, with "fill:" + c in
\* the place of the declarations whose key is fill.
C4_Original ==
    ( Recoloured /\ arg.color # PyNone /\ ret.status = "ok" )
    => StylesRefilled

\* C4, amended: the same for every non-null colour without a semicolon.
C4_StyleRefilled ==
    ( /\ Recoloured
      /\ arg.color # PyNone
      /\ ";" \notin { arg.color.s[i] : i \in 1..Len(arg.color.s) }
      /\ ret.status = "ok" )
    => StylesRefilled

\* C4: a style with an empty declaration and a fill without value, refilled.
C4_Witness ==
    /\ Recoloured
    /\ arg.color = PyStr(<<"blue">>)
    /\ ret.status = "ok"
    /\ \E slot \in ChildSlots(Before) :
           /\ ChildAt(Before, slot) =
                  PyDict(<<Item(<<"@", "style">>,
                                PyStr(<<";", "fill", ":", ";">>))>>)
           /\ ChildAt(ret.value, slot) =
                  PyDict(<<Item(<<"@", "style">>,
                                PyStr(<<";", "fill", ":", "blue", ";">>))>>)

\* C8 as stated: a well-formed text without a marked direct child group of
\* the root is returned as parsed, for every non-null colour.
C8_NoLayerUnchanged ==
    ( /\ Recoloured
      /\ arg.color # PyNone
      /\ ~HasMarkedGroup(arg.svg_string) )
    => ret = Returned(Before)

\* C9 as stated: with a marked group, the recolouring of a non-null colour
\* returns; a child without style or without a fill declaration is as it
\* was, and the style of a child with a fill declaration holds the new fill.
C9_ChildrenWithoutFill ==
    ( /\ Recoloured
      /\ arg.color # PyNone
      /\ HasMarkedGroup(arg.svg_string) )
    => /\ ret.status = "ok"
       /\ \A slot \in ChildSlots(Before) :
              LET old == ChildAt(Before, slot)
                  new == ChildAt(ret.value, slot)
              IN  IF \/ old.k # "dict"
                     \/ ~HasKey(old, <<"@", "style">>)
                     \/ ~HasFill(GetItem(old, <<"@", "style">>).s)
                  THEN new = old
                  ELSE Contains(GetItem(new, <<"@", "style">>).s,
                                <<"fill", ":">> \o arg.color.s)

====
